---- MODULE Spec2Model ----
(***************************************************************************)
(* Model of the building blocks of competitive-rs:                         *)
(*   - BIT<Sum<isize>>  (src/src/binary_indexed_tree.rs, src/src/group.rs) *)
(*   - UnionFind        (src/src/union_find.rs)                            *)
(*   - SieveOfEratosthenes, primes  (src/src/prime.rs)                     *)
(*   - binary_search    (src/src/binary_search.rs)                         *)
(* Every public operation is one action; a call that panics leaves the     *)
(* structure as the panic found it and ends the run (status "panic").      *)
(***************************************************************************)
EXTENDS Integers, Sequences, FiniteSets, TLC

(***************************************************************************)
(* Bounds of the model.                                                    *)
(***************************************************************************)
MaxN == 4
\* largest structure size explored
MaxAdds == 2
\* number of successful BIT::add calls explored in one run
MaxSeed == 2
\* longest slice handed to BIT::from_slice
UsizeBits == 4
\* width of usize in the model (len is kept below 2^(UsizeBits-1), as a Vec's is)

MaxNodes == 4
\* largest UnionFind explored

MaxSieve == 12
\* longest sieve iterated

MaxNones == 2
\* number of calls of next() explored after the iterator is exhausted

IntBits == 4
\* width of the signed integer type T of binary_search, standing for i32/i64

Vals == {-1, 2}
\* the isize values handed to add / from_slice

VARIABLES
    tree,            \* BIT.tree : Vec<T>, as a function 0..n-1 -> T
    overflow_checks, \* build profile: TRUE = usize overflow panics, FALSE = it wraps
    logical,         \* ghost: reference array, logical[i] = fold of the values given for index i
    origin,          \* ghost: constructor used ("new" / "from_slice")
    nadds,           \* ghost: number of successful add calls so far
    bit_call,        \* the last call on the BIT: which operation, how it ended, what it returned
    parents,         \* UnionFind.parents : Vec<usize>, as a function 0..n-1 -> usize
    rank,            \* UnionFind.rank
    size,            \* UnionFind.size
    conn,            \* ghost: conn[i] = the indices joined to i by the merge calls made so far
    uf_call,         \* the last call on the UnionFind: which operation, how it ended, what it returned
    sieve,           \* SieveOfEratosthenes.sieve : Vec<bool>, as a function 0..len-1 -> BOOLEAN
    sieve_index,     \* SieveOfEratosthenes.index
    sieve_out,       \* ghost: the booleans next() has yielded so far, in order
    sieve_last,      \* the last next(): how it ended and what it returned, {} is None, {b} is Some(b)
    sieve_nones,     \* ghost: how many times next() has returned None
    ok,              \* binary_search: the parameter/local ok
    ng,              \* binary_search: the parameter/local ng
    bs_pc,           \* binary_search: "idle", "loop" (at the while condition), "done" (returned ok), "panic"
    bs_checks,       \* TRUE: built with overflow checks (signed overflow panics); FALSE: it wraps
    bs_dir,          \* the predicate: "le" is |x| x <= bs_t, "ge" is |x| x >= bs_t
    bs_t,            \* the predicate's threshold
    ok0,             \* ghost: ok as passed by the caller
    ng0,             \* ghost: ng as passed by the caller
    bs_evals,        \* ghost: the points pred has been called on
    bs_sum_ov,       \* ghost: ok + ng has overflowed T
    bs_diff_ov       \* ghost: max(ok, ng) - min(ok, ng) has overflowed T

bit_vars == <<tree, overflow_checks, logical, origin, nadds, bit_call>>

uf_vars == <<parents, rank, size, conn, uf_call>>

sieve_vars == <<sieve, sieve_index, sieve_out, sieve_last, sieve_nones>>

bs_vars == <<ok, ng, bs_pc, bs_checks, bs_dir, bs_t, ok0, ng0, bs_evals, bs_sum_ov, bs_diff_ov>>

vars == <<bit_vars, uf_vars, sieve_vars, bs_vars>>

(***************************************************************************)
(* usize arithmetic                                                        *)
(***************************************************************************)
UsizeMax == 2^UsizeBits - 1

RECURSIVE BitAnd(_, _)
BitAnd(a, b) ==
    IF a = 0 \/ b = 0 THEN 0
    ELSE (IF a % 2 = 1 /\ b % 2 = 1 THEN 1 ELSE 0) + 2 * BitAnd(a \div 2, b \div 2)

Not(x) == UsizeMax - x

Wrap(x) == x % (UsizeMax + 1)

(***************************************************************************)
(* group.rs : Sum<isize> as an Abelian group.  Sum(x) is the tuple struct. *)
(***************************************************************************)
Sum(x) == <<x>>

identity == Sum(0)

inverse(a) == Sum(0 - a[1])

apply(a, b) == Sum(a[1] + b[1])

(***************************************************************************)
(* binary_indexed_tree.rs                                                  *)
(***************************************************************************)
new(n) == [i \in 0..(n - 1) |-> identity]

from_slice(v) == [i \in 0..(Len(v) - 1) |-> Sum(v[i + 1])]

len(t) == Cardinality(DOMAIN t)

\* a plausible slip: step to the next index instead of the next ancestor
up_naive(index) == index + 1

up(index) == index + BitAnd(index + 1, Not(index))

\* the indices the while loop of add writes, in order, on a structure of length n
RECURSIVE add_visits(_, _)
add_visits(index, n) ==
    IF index < n THEN <<index>> \o add_visits(up(index), n) ELSE <<>>

\* a plausible slip: `if` for `while`, only the first node is written
add_loop_once(t, index, value) ==
    IF index < len(t) THEN [t EXCEPT ![index] = apply(t[index], value)] ELSE t

RECURSIVE add_loop(_, _, _)
add_loop(t, index, value) ==
    IF index < len(t)
    THEN add_loop([t EXCEPT ![index] = apply(t[index], value)], up(index), value)
    ELSE t

\* a plausible slip: the range assertion left out
add_unchecked(t, index, value) ==
    [status |-> "ok", tree |-> add_loop(t, index, Sum(value))]

add(t, index, value) ==
    IF ~(index < len(t))
    THEN [status |-> "panic", tree |-> t]
    ELSE [status |-> "ok", tree |-> add_loop(t, index, Sum(value))]

\* a plausible slip: walk down one index at a time
down_naive(index) == IF index >= 1 THEN {index - 1} ELSE {}

\* Option<usize>: {} is None, {x} is Some(x)
down(index) ==
    LET m == BitAnd(index, index + 1)
    IN  IF m >= 1 THEN {m - 1} ELSE {}

\* the indices the loop of sum reads, in order, starting from index = end - 1
RECURSIVE sum_visits(_)
sum_visits(index) ==
    LET d == down(index)
    IN  <<index>> \o (IF d # {} THEN sum_visits(CHOOSE x \in d : TRUE) ELSE <<>>)

RECURSIVE sum_loop(_, _, _)
sum_loop(t, index, ret) ==
    LET r == apply(ret, t[index])
        d == down(index)
    IN  IF d # {} THEN sum_loop(t, CHOOSE x \in d : TRUE, r) ELSE r

sum(t, end) ==
    IF ~(end <= len(t)) THEN [status |-> "panic", ret |-> identity]
    ELSE IF end = 0 THEN [status |-> "ok", ret |-> identity]
    ELSE [status |-> "ok", ret |-> sum_loop(t, end - 1, identity)]

\* std::ops::Bound<usize>
Unbounded == [kind |-> "Unbounded", b |-> 0]
Included(b) == [kind |-> "Included", b |-> b]
Excluded(b) == [kind |-> "Excluded", b |-> b]

\* query(range) under the build profile oc (overflow-checks on / off)
query(t, start, end, oc) ==
    LET n == len(t)
        b0 == CASE start.kind = "Unbounded" -> 0
                [] start.kind = "Included" -> start.b
                [] start.kind = "Excluded" -> start.b + 1
        e0 == CASE end.kind = "Unbounded" -> n
                [] end.kind = "Included" -> end.b + 1
                [] end.kind = "Excluded" -> end.b
        begin == Wrap(b0)
        endx == Wrap(e0)
    IN  IF oc /\ (b0 > UsizeMax \/ e0 > UsizeMax)
        THEN [status |-> "panic", ret |-> identity]
        ELSE IF ~(begin < endx /\ begin < n /\ endx <= n)
        THEN [status |-> "panic", ret |-> identity]
        ELSE LET se == sum(t, endx)
                 sb == sum(t, begin)
             IN  IF se.status = "panic" \/ sb.status = "panic"
                 THEN [status |-> "panic", ret |-> identity]
                 ELSE [status |-> "ok", ret |-> apply(se.ret, inverse(sb.ret))]

get(t, index, oc) ==
    IF ~(index < len(t))
    THEN [status |-> "panic", ret |-> identity]
    ELSE query(t, Included(index), Included(index), oc)

(***************************************************************************)
(* union_find.rs                                                           *)
(* A UnionFind value is the record [parents, rank, size].                  *)
(***************************************************************************)
uf_new(n) ==
    [parents |-> [i \in 0..(n - 1) |-> i],
     rank    |-> [i \in 0..(n - 1) |-> 0],
     size    |-> [i \in 0..(n - 1) |-> 1]]

uf_len(u) == Cardinality(DOMAIN u.parents)

\* a plausible slip: an index past the end wraps around instead of failing
RECURSIVE root_wrap(_, _)
root_wrap(p, node) ==
    IF DOMAIN p = {}
    THEN [status |-> "panic", parents |-> p, ret |-> node]
    ELSE LET k == node % Cardinality(DOMAIN p)
         IN  IF p[k] # k
             THEN LET r == root_wrap(p, p[k])
                  IN  [status  |-> "ok",
                       parents |-> [r.parents EXCEPT ![k] = r.ret],
                       ret     |-> r.ret]
             ELSE [status |-> "ok", parents |-> p, ret |-> k]

\* a plausible slip: the root is found but the path is not compressed
RECURSIVE root_nocompress(_, _)
root_nocompress(p, node) ==
    IF node \notin DOMAIN p
    THEN [status |-> "panic", parents |-> p, ret |-> node]
    ELSE IF p[node] # node
    THEN root_nocompress(p, p[node])
    ELSE [status |-> "ok", parents |-> p, ret |-> node]

\* root(node) on the parents array p: indexing past the end panics, the
\* recursion re-points every node on the path to the root it returns.
RECURSIVE root(_, _)
root(p, node) ==
    IF node \notin DOMAIN p
    THEN [status |-> "panic", parents |-> p, ret |-> node]
    ELSE IF p[node] # node
    THEN LET r == root(p, p[node])
         IN  IF r.status = "panic" THEN r
             ELSE [status  |-> "ok",
                   parents |-> [r.parents EXCEPT ![node] = r.ret],
                   ret     |-> r.ret]
    ELSE [status |-> "ok", parents |-> p, ret |-> p[node]]

\* a plausible slip: the child b is attached instead of its root
link_node(u, p, ra, rb, b) ==
    LET swap   == u.rank[ra] < u.rank[rb]
        a_root == IF swap THEN rb ELSE ra
        b_root == IF swap THEN ra ELSE rb
    IN  [parents |-> [p EXCEPT ![b] = a_root],
         rank    |-> IF u.rank[a_root] = u.rank[b_root]
                     THEN [u.rank EXCEPT ![a_root] = @ + 1] ELSE u.rank,
         size    |-> [u.size EXCEPT ![a_root] = @ + u.size[b_root]]]

\* a plausible slip: the roots are not swapped, rb always goes under ra
link_noswap(u, p, ra, rb, b) ==
    [parents |-> [p EXCEPT ![rb] = ra],
     rank    |-> IF u.rank[ra] = u.rank[rb]
                 THEN [u.rank EXCEPT ![ra] = @ + 1] ELSE u.rank,
     size    |-> [u.size EXCEPT ![ra] = @ + u.size[rb]]]

\* a plausible slip: the rank of the surviving root is never raised
link_norank(u, p, ra, rb, b) ==
    LET swap   == u.rank[ra] < u.rank[rb]
        a_root == IF swap THEN rb ELSE ra
        b_root == IF swap THEN ra ELSE rb
    IN  [parents |-> [p EXCEPT ![b_root] = a_root],
         rank    |-> u.rank,
         size    |-> [u.size EXCEPT ![a_root] = @ + u.size[b_root]]]

\* a plausible slip: the size is accumulated onto the absorbed root
link_size_to_child(u, p, ra, rb, b) ==
    LET swap   == u.rank[ra] < u.rank[rb]
        a_root == IF swap THEN rb ELSE ra
        b_root == IF swap THEN ra ELSE rb
    IN  [parents |-> [p EXCEPT ![b_root] = a_root],
         rank    |-> IF u.rank[a_root] = u.rank[b_root]
                     THEN [u.rank EXCEPT ![a_root] = @ + 1] ELSE u.rank,
         size    |-> [u.size EXCEPT ![b_root] = @ + u.size[a_root]]]

\* merge, lines 23-30: two distinct roots ra = root(a), rb = root(b); p is the
\* parents array after the two lookups
link(u, p, ra, rb, b) ==
    LET swap   == u.rank[ra] < u.rank[rb]
        a_root == IF swap THEN rb ELSE ra
        b_root == IF swap THEN ra ELSE rb
    IN  [parents |-> [p EXCEPT ![b_root] = a_root],
         rank    |-> IF u.rank[a_root] = u.rank[b_root]
                     THEN [u.rank EXCEPT ![a_root] = @ + 1] ELSE u.rank,
         size    |-> [u.size EXCEPT ![a_root] = @ + u.size[b_root]]]

\* a plausible slip: the early return for equal roots left out
merge_nocheck(u, a, b) ==
    LET ra == root(u.parents, a)
    IN  IF ra.status = "panic"
        THEN [status |-> "panic", uf |-> [u EXCEPT !.parents = ra.parents]]
        ELSE LET rb == root(ra.parents, b)
             IN  IF rb.status = "panic"
                 THEN [status |-> "panic", uf |-> [u EXCEPT !.parents = rb.parents]]
                 ELSE [status |-> "ok", uf |-> link(u, rb.parents, ra.ret, rb.ret, b)]

merge(u, a, b) ==
    LET ra == root(u.parents, a)
    IN  IF ra.status = "panic"
        THEN [status |-> "panic", uf |-> [u EXCEPT !.parents = ra.parents]]
        ELSE LET rb == root(ra.parents, b)
             IN  IF rb.status = "panic"
                 THEN [status |-> "panic", uf |-> [u EXCEPT !.parents = rb.parents]]
                 ELSE IF ra.ret = rb.ret
                 THEN [status |-> "ok", uf |-> [u EXCEPT !.parents = rb.parents]]
                 ELSE [status |-> "ok", uf |-> link(u, rb.parents, ra.ret, rb.ret, b)]

is_same(u, a, b) ==
    LET ra == root(u.parents, a)
    IN  IF ra.status = "panic"
        THEN [status |-> "panic", uf |-> [u EXCEPT !.parents = ra.parents], ret |-> FALSE]
        ELSE LET rb == root(ra.parents, b)
             IN  [status |-> rb.status,
                  uf     |-> [u EXCEPT !.parents = rb.parents],
                  ret    |-> rb.status = "ok" /\ ra.ret = rb.ret]

\* a plausible slip: the entry of the node itself is read, not its root's
uf_size_of_node(u, n) ==
    LET r == root(u.parents, n)
    IN  IF r.status = "panic"
        THEN [status |-> "panic", uf |-> [u EXCEPT !.parents = r.parents], ret |-> 0]
        ELSE [status |-> "ok", uf |-> [u EXCEPT !.parents = r.parents], ret |-> u.size[n]]

\* a plausible slip: the answer is cached in the entry of the node asked about
uf_size_cached(u, n) ==
    LET r == root(u.parents, n)
    IN  IF r.status = "panic"
        THEN [status |-> "panic", uf |-> [u EXCEPT !.parents = r.parents], ret |-> 0]
        ELSE [status |-> "ok",
              uf     |-> [u EXCEPT !.parents = r.parents, !.size[n] = u.size[r.ret]],
              ret    |-> u.size[r.ret]]

\* UnionFind::size
uf_size(u, n) ==
    LET r == root(u.parents, n)
    IN  IF r.status = "panic"
        THEN [status |-> "panic", uf |-> [u EXCEPT !.parents = r.parents], ret |-> 0]
        ELSE [status |-> "ok", uf |-> [u EXCEPT !.parents = r.parents], ret |-> u.size[r.ret]]

\* groups, lines 48-50: root(i) for i in 0..len
RECURSIVE compress_from(_, _, _)
compress_from(p, i, n) ==
    IF i >= n THEN p ELSE compress_from(root(p, i).parents, i + 1, n)

\* groups, lines 52-55: ret[r] after the pushes of i, i+1, .., len-1
RECURSIVE bucket(_, _, _, _)
bucket(p, r, i, n) ==
    IF i >= n THEN <<>>
    ELSE (IF p[i] = r THEN <<i>> ELSE <<>>) \o bucket(p, r, i + 1, n)

\* groups, line 56: the non-empty buckets r, r+1, .., len-1 in order
RECURSIVE non_empty_from(_, _, _)
non_empty_from(p, r, n) ==
    IF r >= n THEN <<>>
    ELSE LET v == bucket(p, r, 0, n)
         IN  (IF v # <<>> THEN <<v>> ELSE <<>>) \o non_empty_from(p, r + 1, n)

\* a plausible slip: the compression pass left out
groups_uncompressed(u) ==
    [status |-> "ok", uf |-> u, ret |-> non_empty_from(u.parents, 0, uf_len(u))]

groups(u) ==
    LET n == uf_len(u)
        p == compress_from(u.parents, 0, n)
    IN  [status |-> "ok", uf |-> [u EXCEPT !.parents = p], ret |-> non_empty_from(p, 0, n)]

(***************************************************************************)
(* Calls on the UnionFind                                                  *)
(***************************************************************************)
self == [parents |-> parents, rank |-> rank, size |-> size]

UFNoCall == [op |-> "none", status |-> "ok", same |-> FALSE, count |-> 0, groups |-> <<>>]

Nodes == 0..MaxNodes
\* indices handed to merge / is_same / size: valid ones and ones past the end

UFRunning == uf_call.status = "ok"

Merge(a, b) ==
    /\ UFRunning
    /\ LET r == merge(self, a, b)
       IN  /\ parents' = r.uf.parents
           /\ rank' = r.uf.rank
           /\ size' = r.uf.size
           /\ uf_call' = [UFNoCall EXCEPT !.op = "merge", !.status = r.status]
           /\ conn' = IF r.status = "ok"
                      THEN [i \in DOMAIN conn |->
                              IF i \in conn[a] \cup conn[b] THEN conn[a] \cup conn[b] ELSE conn[i]]
                      ELSE conn
    /\ UNCHANGED <<bit_vars, sieve_vars, bs_vars>>

IsSame(a, b) ==
    /\ UFRunning
    /\ LET r == is_same(self, a, b)
       IN  /\ parents' = r.uf.parents
           /\ rank' = r.uf.rank
           /\ size' = r.uf.size
           /\ uf_call' = [UFNoCall EXCEPT !.op = "is_same", !.status = r.status,
                                          !.same = r.ret]
    /\ UNCHANGED <<conn, bit_vars, sieve_vars, bs_vars>>

Size(n) ==
    /\ UFRunning
    /\ LET r == uf_size(self, n)
       IN  /\ parents' = r.uf.parents
           /\ rank' = r.uf.rank
           /\ size' = r.uf.size
           /\ uf_call' = [UFNoCall EXCEPT !.op = "size", !.status = r.status,
                                          !.count = r.ret]
    /\ UNCHANGED <<conn, bit_vars, sieve_vars, bs_vars>>

Groups ==
    /\ UFRunning
    /\ LET r == groups(self)
       IN  /\ parents' = r.uf.parents
           /\ rank' = r.uf.rank
           /\ size' = r.uf.size
           /\ uf_call' = [UFNoCall EXCEPT !.op = "groups", !.status = r.status,
                                          !.groups = r.ret]
    /\ UNCHANGED <<conn, bit_vars, sieve_vars, bs_vars>>

NextUF ==
    \/ \E a \in Nodes, b \in Nodes : Merge(a, b)
    \/ \E a \in Nodes, b \in Nodes : IsSame(a, b)
    \/ \E n \in Nodes : Size(n)
    \/ Groups


(***************************************************************************)
(* prime.rs                                                                *)
(* A SieveOfEratosthenes value is the record [sieve, index].               *)
(***************************************************************************)
Min(a, b) == IF a < b THEN a ELSE b

\* a plausible slip: only index 0 is cleared
sieve_of_eratosthenes_clear1(n) ==
    [sieve |-> [i \in 0..(n - 1) |-> ~(i < Min(n, 1))], index |-> 0]

sieve_of_eratosthenes(n) ==
    [sieve |-> [i \in 0..(n - 1) |-> ~(i < Min(n, 2))], index |-> 0]

\* next, lines 15-17: for i in (index..len).step_by(step) from position i on
RECURSIVE strike(_, _, _)
strike(sv, i, step) ==
    IF i < Cardinality(DOMAIN sv)
    THEN strike([sv EXCEPT ![i] = FALSE], i + step, step)
    ELSE sv

\* Iterator::next; step_by(0) panics
next(it) ==
    IF it.index \in DOMAIN it.sieve
    THEN LET is_prime == it.sieve[it.index]
         IN  IF is_prime /\ it.index = 0
             THEN [status |-> "panic", it |-> it, ret |-> {}]
             ELSE [status |-> "ok",
                   it |-> [sieve |-> IF is_prime
                                     THEN strike(it.sieve, it.index, it.index)
                                     ELSE it.sieve,
                           index |-> it.index + 1],
                   ret |-> {is_prime}]
    ELSE [status |-> "ok", it |-> it, ret |-> {}]

\* primes: enumerate().filter(|(_, p)| p).map(|(i, _)| i).collect(), k counts the items
RECURSIVE collect_primes(_, _)
collect_primes(it, k) ==
    LET r == next(it)
    IN  IF r.status = "panic" \/ r.ret = {} THEN <<>>
        ELSE (IF r.ret = {TRUE} THEN <<k>> ELSE <<>>) \o collect_primes(r.it, k + 1)

primes(n) == collect_primes(sieve_of_eratosthenes(n), 0)

SieveNoCall == [status |-> "none", ret |-> {}]

SieveNext ==
    /\ sieve_last.status # "panic"
    /\ sieve_nones < MaxNones
    /\ LET r == next([sieve |-> sieve, index |-> sieve_index])
       IN  /\ sieve' = r.it.sieve
           /\ sieve_index' = r.it.index
           /\ sieve_last' = [status |-> r.status, ret |-> r.ret]
           /\ sieve_out' = IF r.status = "ok" /\ r.ret # {}
                           THEN Append(sieve_out, CHOOSE b \in r.ret : TRUE) ELSE sieve_out
           /\ sieve_nones' = IF r.status = "ok" /\ r.ret = {}
                             THEN sieve_nones + 1 ELSE sieve_nones
    /\ UNCHANGED <<bit_vars, uf_vars, bs_vars>>

NextSieve == SieveNext

(***************************************************************************)
(* binary_search.rs, for T a signed integer of IntBits bits                *)
(***************************************************************************)
IntMin == -(2^(IntBits - 1))

IntMax == 2^(IntBits - 1) - 1

Ints == IntMin..IntMax

\* two's complement wrap of a result that left T
WrapInt(x) == ((x - IntMin) % 2^IntBits) + IntMin

\* T's `/`: integer division truncates toward zero
TruncDiv(x, y) == IF x >= 0 THEN x \div y ELSE -((-x) \div y)

Max(a, b) == IF a > b THEN a ELSE b

\* the closure passed as pred
pred(x) == IF bs_dir = "le" THEN x <= bs_t ELSE x >= bs_t

\* a plausible slip: the branches of the if are exchanged
bs_assign_swapped(p, middle) ==
    IF p THEN [ok |-> ok, ng |-> middle] ELSE [ok |-> middle, ng |-> ng]

\* lines 11-15: if pred(middle) { ok = middle } else { ng = middle }
bs_assign(p, middle) ==
    IF p THEN [ok |-> middle, ng |-> ng] ELSE [ok |-> ok, ng |-> middle]

\* One evaluation of the while condition and, when it holds, one loop body.
LoopStep ==
    /\ bs_pc = "loop"
    /\ LET diff == Max(ok, ng) - Min(ok, ng)
           total == ok + ng
           middle == TruncDiv(WrapInt(total), 2)
           a == bs_assign(pred(middle), middle)
       IN  IF diff \notin Ints /\ bs_checks
           THEN /\ bs_pc' = "panic" /\ bs_diff_ov' = TRUE
                /\ UNCHANGED <<ok, ng, bs_evals, bs_sum_ov>>
           ELSE IF ~(WrapInt(diff) > 1)
           THEN /\ bs_pc' = "done" /\ bs_diff_ov' = (bs_diff_ov \/ diff \notin Ints)
                /\ UNCHANGED <<ok, ng, bs_evals, bs_sum_ov>>
           ELSE IF total \notin Ints /\ bs_checks
           THEN /\ bs_pc' = "panic" /\ bs_sum_ov' = TRUE
                /\ bs_diff_ov' = (bs_diff_ov \/ diff \notin Ints)
                /\ UNCHANGED <<ok, ng, bs_evals>>
           ELSE /\ ok' = a.ok /\ ng' = a.ng
                /\ bs_evals' = bs_evals \cup {middle}
                /\ bs_sum_ov' = (bs_sum_ov \/ total \notin Ints)
                /\ bs_diff_ov' = (bs_diff_ov \/ diff \notin Ints)
                /\ UNCHANGED bs_pc
    /\ UNCHANGED <<bs_checks, bs_dir, bs_t, ok0, ng0>>
    /\ UNCHANGED <<bit_vars, uf_vars, sieve_vars>>

NextBS == LoopStep

(***************************************************************************)
(* Calls on the BIT                                                        *)
(***************************************************************************)
NoCall == [op |-> "none", status |-> "ok", ret |-> identity]

Indices == 0..(MaxN + 1)
\* indices handed to add / get: valid ones and ones past the end

BoundVals == (0..(MaxN + 1)) \cup {UsizeMax - 1, UsizeMax}

Bounds == {Unbounded} \cup {Included(b) : b \in BoundVals} \cup {Excluded(b) : b \in BoundVals}
\* every range bound the properties quantify over

CallBoundVals == {0, 2, MaxN, UsizeMax}

CallBounds == {Unbounded} \cup {Included(b) : b \in CallBoundVals} \cup {Excluded(b) : b \in CallBoundVals}
\* the range bounds the Query action is called with

RECURSIVE SeqsUpTo(_, _)
SeqsUpTo(S, k) ==
    IF k = 0 THEN {<<>>}
    ELSE LET P == SeqsUpTo(S, k - 1)
         IN  P \cup {Append(s, x) : s \in {q \in P : Len(q) = k - 1}, x \in S}

Running == bit_call.status = "ok"

Add(index, value) ==
    /\ Running
    /\ nadds < MaxAdds
    /\ LET r == add(tree, index, value)
       IN  /\ tree' = r.tree
           /\ bit_call' = [NoCall EXCEPT !.op = "add", !.status = r.status]
           /\ IF r.status = "ok"
              THEN /\ logical' = [logical EXCEPT ![index] = @ + value]
                   /\ nadds' = nadds + 1
              ELSE UNCHANGED <<logical, nadds>>
    /\ UNCHANGED <<overflow_checks, origin, uf_vars, sieve_vars, bs_vars>>

Get(index) ==
    /\ Running
    /\ LET r == get(tree, index, overflow_checks)
       IN  bit_call' = [NoCall EXCEPT !.op = "get", !.status = r.status, !.ret = r.ret]
    /\ UNCHANGED <<tree, overflow_checks, logical, origin, nadds, uf_vars, sieve_vars, bs_vars>>

Query(start, end) ==
    /\ Running
    /\ LET r == query(tree, start, end, overflow_checks)
       IN  bit_call' = [NoCall EXCEPT !.op = "query", !.status = r.status, !.ret = r.ret]
    /\ UNCHANGED <<tree, overflow_checks, logical, origin, nadds, uf_vars, sieve_vars, bs_vars>>

NextBIT ==
    \/ \E index \in Indices, value \in Vals : Add(index, value)
    \/ \E index \in Indices : Get(index)
    \/ \E start \in CallBounds, end \in CallBounds : Query(start, end)

(***************************************************************************)
(* Specifications: one structure is exercised at a time                    *)
(***************************************************************************)
\* the structure that is not under study stays as constructed with size 0
IdleBIT ==
    /\ tree = new(0) /\ overflow_checks = TRUE /\ logical = <<>>
    /\ origin = "new" /\ nadds = 0 /\ bit_call = NoCall

IdleUF ==
    /\ parents = uf_new(0).parents /\ rank = uf_new(0).rank /\ size = uf_new(0).size
    /\ conn = <<>> /\ uf_call = UFNoCall

IdleBS ==
    /\ ok = 0 /\ ng = 0 /\ ok0 = 0 /\ ng0 = 0 /\ bs_pc = "idle"
    /\ bs_checks = TRUE /\ bs_dir = "le" /\ bs_t = 0
    /\ bs_evals = {} /\ bs_sum_ov = FALSE /\ bs_diff_ov = FALSE

IdleSieve ==
    /\ sieve = sieve_of_eratosthenes(0).sieve /\ sieve_index = 0
    /\ sieve_out = <<>> /\ sieve_last = SieveNoCall /\ sieve_nones = 0

InitBIT ==
    /\ overflow_checks \in BOOLEAN
    /\ nadds = 0
    /\ bit_call = NoCall
    /\ \/ \E n \in 0..MaxN :
             /\ tree = new(n)
             /\ logical = [i \in 0..(n - 1) |-> 0]
             /\ origin = "new"
       \/ \E v \in SeqsUpTo(Vals, MaxSeed) :
             /\ tree = from_slice(v)
             /\ logical = [i \in 0..(Len(v) - 1) |-> v[i + 1]]
             /\ origin = "from_slice"
    /\ IdleUF /\ IdleSieve /\ IdleBS

InitUF ==
    /\ \E n \in 0..MaxNodes :
          /\ parents = uf_new(n).parents
          /\ rank = uf_new(n).rank
          /\ size = uf_new(n).size
          /\ conn = [i \in 0..(n - 1) |-> {i}]
    /\ uf_call = UFNoCall
    /\ IdleBIT /\ IdleSieve /\ IdleBS

InitSieve ==
    /\ \E n \in 0..MaxSieve :
          /\ sieve = sieve_of_eratosthenes(n).sieve
          /\ sieve_index = sieve_of_eratosthenes(n).index
    /\ sieve_out = <<>> /\ sieve_last = SieveNoCall /\ sieve_nones = 0
    /\ IdleBIT /\ IdleUF /\ IdleBS

SpecBIT == InitBIT /\ [][NextBIT]_vars

SpecUF == InitUF /\ [][NextUF]_vars

SpecSieve == InitSieve /\ [][NextSieve]_vars

\* binary_search(ok0, ng0, pred) has been entered; pred is monotone: it holds
\* on the side of ok0 up to the threshold
InitBS ==
    /\ ok0 \in Ints /\ ng0 \in Ints
    /\ ok = ok0 /\ ng = ng0
    /\ bs_pc = "loop"
    /\ bs_checks \in BOOLEAN
    /\ bs_dir = (IF ok0 <= ng0 THEN "le" ELSE "ge")
    /\ bs_t \in Min(ok0, ng0)..Max(ok0, ng0)
    /\ bs_evals = {} /\ bs_sum_ov = FALSE /\ bs_diff_ov = FALSE
    /\ IdleBIT /\ IdleUF /\ IdleSieve

SpecBS == InitBS /\ [][NextBS]_vars

\* the function runs to its return: a loop step that can be taken is taken
SpecBSFair == SpecBS /\ WF_vars(NextBS)


(***************************************************************************)
(* Properties of the BIT                                                   *)
(***************************************************************************)
\* fold of the reference array over [a, b)
RECURSIVE RangeFold(_, _, _)
RangeFold(l, a, b) == IF a >= b THEN identity ELSE apply(Sum(l[a]), RangeFold(l, a + 1, b))

\* C1: on a structure made by new(n), after any adds, query(a..b) for every
\* 0 <= a < b <= n returns the fold of the values added at indices in [a, b)
\* (the identity when there were none), whatever the order of the adds.
C1_QueryIsRangeFold ==
    origin = "new" =>
        \A a \in 0..MaxN, b \in 0..MaxN :
            (a < b /\ b <= len(tree)) =>
                query(tree, Included(a), Excluded(b), overflow_checks)
                    = [status |-> "ok", ret |-> RangeFold(logical, a, b)]

C1_Witness ==
    /\ origin = "new"
    /\ len(tree) = 4
    /\ nadds = 2
    /\ logical[0] = 2 /\ logical[2] = -1
    /\ tree[3] = Sum(1)
    /\ bit_call.op = "query" /\ bit_call.status = "ok"
    /\ bit_call.ret = query(tree, Included(2), Excluded(4), overflow_checks).ret
    /\ bit_call.ret = Sum(-1)

\* C2: right after from_slice(values), get(i) = values[i] for every i and
\* query(a..b) is the fold of values[a..b).
C2_FromSliceSeedsElements ==
    (origin = "from_slice" /\ nadds = 0) =>
        /\ \A i \in 0..(len(tree) - 1) :
              get(tree, i, overflow_checks) = [status |-> "ok", ret |-> Sum(logical[i])]
        /\ \A a \in 0..MaxN, b \in 0..MaxN :
              (a < b /\ b <= len(tree)) =>
                  query(tree, Included(a), Excluded(b), overflow_checks)
                      = [status |-> "ok", ret |-> RangeFold(logical, a, b)]

\* C8: add(index, value) with index >= n panics and leaves the tree as it was.
C8_AddOutOfRangeFailsClean ==
    [][\A index \in Indices, value \in Vals :
          (index >= len(tree) /\ Add(index, value))
              => (bit_call'.status = "panic" /\ tree' = tree)]_vars

C8_Witness ==
    /\ bit_call.op = "add" /\ bit_call.status = "panic"
    /\ len(tree) >= 2
    /\ nadds >= 1 /\ \E i \in DOMAIN tree : tree[i] # identity

\* the bounds of a range resolved in unbounded arithmetic, as the claim reads them
ResolvedBegin(start) ==
    CASE start.kind = "Unbounded" -> 0
      [] start.kind = "Included" -> start.b
      [] start.kind = "Excluded" -> start.b + 1

ResolvedEnd(end, n) ==
    CASE end.kind = "Unbounded" -> n
      [] end.kind = "Included" -> end.b + 1
      [] end.kind = "Excluded" -> end.b

ValidRange(start, end, n) ==
    /\ ResolvedBegin(start) < ResolvedEnd(end, n)
    /\ ResolvedBegin(start) < n
    /\ ResolvedEnd(end, n) <= n

\* C9: query(range) returns a value exactly when the resolved bounds satisfy
\* begin < end, begin < n and end <= n, and panics in every other case.
C9_QueryOkIffValidRange ==
    \A start \in Bounds, end \in Bounds :
        (query(tree, start, end, overflow_checks).status = "ok")
            <=> ValidRange(start, end, len(tree))

\* C10: on a structure made by new(n), get(i) is the fold of the values added
\* at i, equals query(i..=i), and an add at another index leaves it unchanged.
C10_GetIsPointFold ==
    /\ [](origin = "new" =>
            \A i \in 0..(len(tree) - 1) :
                /\ get(tree, i, overflow_checks) = [status |-> "ok", ret |-> Sum(logical[i])]
                /\ get(tree, i, overflow_checks)
                     = query(tree, Included(i), Included(i), overflow_checks))
    /\ [][\A index \in Indices, value \in Vals :
             (origin = "new" /\ Add(index, value)) =>
                 \A i \in 0..(len(tree) - 1) :
                     i # index => get(tree', i, overflow_checks) = get(tree, i, overflow_checks)]_vars

C10_Witness ==
    /\ origin = "new"
    /\ len(tree) = 4
    /\ nadds = 2
    /\ logical[2] = -1 /\ logical[3] = 2
    /\ tree[3] = Sum(1)
    /\ bit_call.op = "get" /\ bit_call.status = "ok"
    /\ bit_call.ret = get(tree, 3, overflow_checks).ret
    /\ bit_call.ret = Sum(2)

(***************************************************************************)
(* Properties of the UnionFind                                             *)
(***************************************************************************)
\* the node reached from i by following p at most k times, stopping at a self-loop
RECURSIVE Walk(_, _, _)
Walk(p, i, k) == IF k = 0 \/ p[i] = i THEN i ELSE Walk(p, p[i], k - 1)

Find(p, i) == Walk(p, i, Cardinality(DOMAIN p))

\* the indices joined to i by parent edges taken in either direction
RECURSIVE Grow(_, _, _)
Grow(p, S, k) ==
    IF k = 0 THEN S
    ELSE Grow(p, S \cup {p[x] : x \in S} \cup {x \in DOMAIN p : p[x] \in S}, k - 1)

WeakComponent(p, i) == Grow(p, {i}, Cardinality(DOMAIN p))

Members(v) == {v[j] : j \in 1..Len(v)}

\* C3: after any merges, is_same(a, b) is true exactly when a and b are joined
\* by the merged pairs; it is an equivalence relation, and on a fresh
\* structure is_same(i, j) holds iff i = j.
C3_IsSameIsConnectivity ==
    LET N == DOMAIN parents
        same(a, b) == is_same(self, a, b).ret
    IN  /\ \A a \in N, b \in N :
              /\ is_same(self, a, b).status = "ok"
              /\ same(a, b) <=> (b \in conn[a])
        /\ \A a \in N : same(a, a)
        /\ \A a \in N, b \in N : same(a, b) => same(b, a)
        /\ \A a \in N, b \in N, c \in N : (same(a, b) /\ same(b, c)) => same(a, c)
        /\ uf_call.op = "none" => \A a \in N, b \in N : same(a, b) <=> (a = b)

C3_Witness ==
    /\ uf_call.op = "is_same" /\ uf_call.status = "ok" /\ uf_call.same
    /\ \E a \in DOMAIN parents, b \in DOMAIN parents :
          /\ a # b /\ b \in conn[a]
          /\ parents[a] # b /\ parents[b] # a
          /\ \E k \in DOMAIN parents : k \notin conn[a]

\* C4: in every reachable state parents is a forest over 0..n, every component
\* has exactly one root, and size[r] at a root r counts the indices whose
\* parent chain ends at r.
C4_ForestWithSizes ==
    LET N == DOMAIN parents
    IN  /\ DOMAIN rank = N /\ DOMAIN size = N
        /\ \A i \in N : parents[i] \in N
        /\ \A i \in N : parents[Find(parents, i)] = Find(parents, i)
        /\ \A i \in N : Cardinality({r \in WeakComponent(parents, i) : parents[r] = r}) = 1
        /\ \A r \in N : parents[r] = r =>
              size[r] = Cardinality({i \in N : Find(parents, i) = r})

C4_Witness ==
    /\ uf_call.op = "merge" /\ uf_call.status = "ok"
    /\ \E i \in DOMAIN parents :
          /\ parents[i] # i /\ parents[parents[i]] # parents[i]
          /\ size[Find(parents, i)] = 4
    /\ \E j \in DOMAIN parents : size[j] = 2 /\ parents[j] # j

\* C5: after any merges, size(x) is the number of indices y with is_same(x, y).
C5_SizeCountsComponent ==
    \A x \in DOMAIN parents :
        uf_size(self, x).ret
            = Cardinality({y \in DOMAIN parents : is_same(self, x, y).ret})

C5_Witness ==
    /\ uf_call.op = "size" /\ uf_call.status = "ok"
    /\ uf_call.count = 3
    /\ Cardinality(DOMAIN parents) = 4
    /\ \E x \in DOMAIN parents :
          parents[x] # x /\ size[x] # 3 /\ uf_size(self, x).ret = 3

\* C6: groups() returns non-empty groups in which every index of 0..n appears
\* exactly once, two indices sharing a group exactly when is_same holds for
\* them; for n = 0 the result is empty.
C6_GroupsIsPartition ==
    LET N == DOMAIN parents
        g == groups(self).ret
    IN  /\ \A k \in 1..Len(g) : g[k] # <<>> /\ Members(g[k]) \subseteq N
        /\ \A i \in N :
              Cardinality({kj \in (1..Len(g)) \X (1..Cardinality(N)) :
                              kj[2] <= Len(g[kj[1]]) /\ g[kj[1]][kj[2]] = i}) = 1
        /\ \A a \in N, b \in N :
              (\E k \in 1..Len(g) : a \in Members(g[k]) /\ b \in Members(g[k]))
                  <=> is_same(self, a, b).ret
        /\ N = {} => g = <<>>

C6_Witness ==
    /\ uf_call.op = "groups" /\ uf_call.status = "ok"
    /\ Len(uf_call.groups) = 2
    /\ \E k \in 1..2 : Len(uf_call.groups[k]) = 3
    /\ \E i \in DOMAIN parents : rank[i] = 1

\* C7: is_same, size and groups leave rank, size, len() and the partition as
\* they were; the only parents entries they write are those of non-root nodes,
\* which they set to the node's current root, so every later is_same / size /
\* groups answer is the one the state before the read would have given.
C7_ReadsOnlyCompress ==
    [][uf_call'.op \in {"is_same", "size", "groups"} =>
          LET N == DOMAIN parents
          IN  /\ rank' = rank /\ size' = size
              /\ DOMAIN parents' = N
              /\ uf_len(self') = uf_len(self)
              /\ \A i \in N :
                    \/ parents'[i] = parents[i]
                    \/ parents[i] # i /\ parents'[i] = Find(parents, i)
              /\ \A i \in N : Find(parents', i) = Find(parents, i)
              /\ \A a \in N, b \in N : is_same(self', a, b).ret = is_same(self, a, b).ret
              /\ \A a \in N : uf_size(self', a).ret = uf_size(self, a).ret
              /\ groups(self').ret = groups(self).ret]_vars

C7_Witness ==
    /\ uf_call.op = "is_same" /\ uf_call.status = "ok"
    /\ Cardinality(DOMAIN parents) = 4
    /\ uf_call.same
    /\ \E r \in DOMAIN parents :
          rank[r] = 2 /\ \A i \in DOMAIN parents : parents[i] = r

\* the indices on the parent chain from i to its root, both included
RECURSIVE Path(_, _, _)
Path(p, i, k) == IF k = 0 \/ p[i] = i THEN {i} ELSE {i} \cup Path(p, p[i], k - 1)

\* the number of parent edges from i to its root
RECURSIVE Depth(_, _, _)
Depth(p, i, k) == IF k = 0 \/ p[i] = i THEN 0 ELSE 1 + Depth(p, p[i], k - 1)

\* C11: merge, is_same and size called with an index >= n panic (no wrap-around,
\* no value), and the panic leaves rank, size and the partition as they were,
\* also when the other argument was valid and looked up first.
C11_OutOfRangeFailsClean ==
    /\ [](LET n == uf_len(self)
          IN  /\ \A a \in Nodes, b \in Nodes :
                    (a >= n \/ b >= n) =>
                        /\ merge(self, a, b).status = "panic"
                        /\ is_same(self, a, b).status = "panic"
              /\ \A a \in Nodes : a >= n => uf_size(self, a).status = "panic")
    /\ [][uf_call'.status = "panic" =>
             /\ rank' = rank /\ size' = size
             /\ DOMAIN parents' = DOMAIN parents
             /\ \A i \in DOMAIN parents : Find(parents', i) = Find(parents, i)]_vars

C11_Witness ==
    /\ uf_call.op = "merge" /\ uf_call.status = "panic"
    /\ Cardinality(DOMAIN parents) = 4
    /\ \E r \in DOMAIN parents : rank[r] = 2 /\ size[r] = 4

\* C14: merge(a, b) with distinct roots ra, rb puts the root of strictly lower
\* rank under the other; with equal ranks rb goes under ra and rank[ra] grows
\* by 1; the surviving root's size becomes size[ra] + size[rb]; no other rank
\* or size entry changes; the two components become one, the others stay.
C14_MergeLinksByRank ==
    [][\A a \in DOMAIN parents, b \in DOMAIN parents :
          LET ra == Find(parents, a)
              rb == Find(parents, b)
              win == IF rank[ra] < rank[rb] THEN rb ELSE ra
              lose == IF rank[ra] < rank[rb] THEN ra ELSE rb
          IN  (Merge(a, b) /\ ra # rb) =>
                  /\ uf_call'.status = "ok"
                  /\ parents'[lose] = win /\ parents'[win] = win
                  /\ rank' = IF rank[ra] = rank[rb]
                             THEN [rank EXCEPT ![ra] = rank[ra] + 1] ELSE rank
                  /\ size' = [size EXCEPT ![win] = size[ra] + size[rb]]
                  /\ \A i \in DOMAIN parents :
                        Find(parents', i) = IF Find(parents, i) \in {ra, rb}
                                            THEN win ELSE Find(parents, i)]_vars

C14_Witness ==
    /\ uf_call.op = "merge" /\ uf_call.status = "ok"
    /\ \E r \in DOMAIN parents :
          /\ parents[r] = r /\ rank[r] = 1 /\ size[r] = 3
          /\ \E k \in DOMAIN parents : Find(parents, k) # r

\* C15: merge(a, b) when a and b already share a root changes neither rank nor
\* size nor the partition; parents changes only by the path compression of
\* the two lookups.
C15_MergeSameRootIsNoOp ==
    [][\A a \in DOMAIN parents, b \in DOMAIN parents :
          (Merge(a, b) /\ Find(parents, a) = Find(parents, b)) =>
              /\ uf_call'.status = "ok"
              /\ rank' = rank /\ size' = size
              /\ \A i \in DOMAIN parents : Find(parents', i) = Find(parents, i)
              /\ \A i \in DOMAIN parents :
                    \/ parents'[i] = parents[i]
                    \/ /\ i \in Path(parents, a, uf_len(self)) \cup Path(parents, b, uf_len(self))
                       /\ parents'[i] = Find(parents, i)]_vars

C15_Witness ==
    /\ uf_call.op = "merge" /\ uf_call.status = "ok"
    /\ Cardinality(DOMAIN parents) = 4
    /\ \E r \in DOMAIN parents :
          rank[r] = 2 /\ \A i \in DOMAIN parents : parents[i] = r

\* C16: root(node) returns the fixed point of parents reached from node and
\* leaves every node of the path with the root as its direct parent; after
\* groups() parents[i] is the root of i for every i.
C16_RootCompressesPath ==
    LET N == DOMAIN parents
    IN  /\ \A node \in N :
              LET r == root(parents, node)
              IN  /\ r.status = "ok"
                  /\ r.ret = Find(parents, node)
                  /\ \A x \in Path(parents, node, Cardinality(N)) : r.parents[x] = r.ret
        /\ \A i \in N : groups(self).uf.parents[i] = Find(parents, i)
        /\ uf_call.op = "groups" => \A i \in N : parents[i] = Find(parents, i)

C16_Witness ==
    /\ uf_call.op = "groups" /\ uf_call.status = "ok"
    /\ Len(uf_call.groups) = 1
    /\ Cardinality(DOMAIN parents) = 4
    /\ \E r \in DOMAIN parents :
          rank[r] = 2 /\ \A i \in DOMAIN parents : parents[i] = r

\* C17: in every reachable state no parent chain from an index to its root r
\* has more than rank[r] edges.
C17_RankBoundsHeight ==
    \A i \in DOMAIN parents :
        Depth(parents, i, Cardinality(DOMAIN parents)) <= rank[Find(parents, i)]

C17_Witness ==
    /\ uf_call.op = "merge" /\ uf_call.status = "ok"
    /\ \E i \in DOMAIN parents :
          /\ Depth(parents, i, Cardinality(DOMAIN parents)) = 2
          /\ rank[Find(parents, i)] = 2

(***************************************************************************)
(* Structure of the BIT                                                    *)
(***************************************************************************)
\* the largest power of two dividing x >= 1
RECURSIVE Lowbit(_)
Lowbit(x) == IF x % 2 = 1 THEN 1 ELSE 2 * Lowbit(x \div 2)

\* the chain i, i + lowbit(i+1), .. below n
RECURSIVE Chain(_, _)
Chain(i, n) == IF i < n THEN {i} \cup Chain(i + Lowbit(i + 1), n) ELSE {}

RECURSIVE Log2(_)
Log2(n) == IF n <= 1 THEN 0 ELSE 1 + Log2(n \div 2)

\* C18: on a structure made by new(n), after any valid adds, tree[j] is the
\* fold of the values added at the indices i with (j & (j+1)) <= i <= j; an
\* add(i, v) applies v once to exactly the nodes of the chain i,
\* i + ((i+1) & !i), .. below n and leaves every other node unchanged.
C18_NodesHoldBlockFolds ==
    /\ [](origin = "new" =>
            \A j \in DOMAIN tree :
                tree[j] = RangeFold(logical, j + 1 - Lowbit(j + 1), j + 1))
    /\ [](\A j \in 0..MaxN : BitAnd(j, j + 1) = j + 1 - Lowbit(j + 1))
    /\ [][\A index \in DOMAIN tree, value \in Vals :
             Add(index, value) =>
                 \A j \in DOMAIN tree :
                     tree'[j] = IF j \in Chain(index, len(tree))
                                THEN apply(tree[j], Sum(value)) ELSE tree[j]]_vars

C18_Witness ==
    /\ origin = "new"
    /\ bit_call.op = "add" /\ bit_call.status = "ok"
    /\ len(tree) = 4 /\ nadds = 2
    /\ logical[1] = 2 /\ logical[2] = -1
    /\ tree[0] = identity /\ tree[1] = Sum(2) /\ tree[2] = Sum(-1) /\ tree[3] = Sum(1)

StrictlyIncreasing(v) == \A k \in 1..(Len(v) - 1) : v[k] < v[k + 1]

StrictlyDecreasing(v) == \A k \in 1..(Len(v) - 1) : v[k] > v[k + 1]

WalkSizes == 1..((UsizeMax + 1) \div 2)
\* the lengths a Vec can have under the model's usize

\* the walks of add and of the prefix fold over a tree of n nodes
WalksEnd(n) ==
    \A i \in 0..(n - 1) :
        LET av == add_visits(i, n)
            sv == sum_visits(i)
            al == Len(av)
            sl == Len(sv)
        IN  /\ av[1] = i /\ StrictlyIncreasing(av)
            /\ \A k \in 1..al : av[k] < n
            /\ up(av[al]) >= n
            /\ al <= Log2(n) + 1
            /\ sv[1] = i /\ StrictlyDecreasing(sv)
            /\ \A k \in 1..sl : sv[k] >= 0 /\ sv[k] < n
            /\ down(sv[sl]) = {} /\ BitAnd(sv[sl], sv[sl] + 1) = 0
            /\ \A k \in 1..(sl - 1) : BitAnd(sv[k], sv[k] + 1) >= 1
            /\ sl <= Log2(n) + 1

\* C19: every valid add and query returns: the index of add strictly
\* increases until it reaches n, the index of the prefix walk strictly
\* decreases until the descent step has no result (never a wrapped index),
\* and each walk visits at most floor(log2(n)) + 1 nodes.  The walks depend
\* on n and the index only: the tree at hand is examined in every state,
\* every other length of WalkSizes once, before the first call.
C19_WalksTerminate ==
    /\ WalksEnd(len(tree))
    /\ bit_call = NoCall => \A n \in WalkSizes : WalksEnd(n)
    /\ \A i \in DOMAIN tree, value \in Vals : add(tree, i, value).status = "ok"
    /\ \A a \in 0..MaxN, b \in 0..MaxN :
          (a < b /\ b <= len(tree)) =>
              query(tree, Included(a), Excluded(b), overflow_checks).status = "ok"

C19_Witness ==
    /\ origin = "new"
    /\ bit_call.op = "add" /\ bit_call.status = "ok"
    /\ len(tree) = 4 /\ nadds = 1
    /\ add_visits(0, 4) = <<0, 1, 3>> /\ sum_visits(2) = <<2, 1>>
    /\ tree[0] # identity /\ tree[1] # identity /\ tree[3] # identity

(***************************************************************************)
(* Properties of the sieve                                                 *)
(***************************************************************************)
IsPrime(k) == k >= 2 /\ \A d \in 2..(k - 1) : k % d # 0

RECURSIVE PrimesFrom(_, _)
PrimesFrom(k, n) ==
    IF k >= n THEN <<>> ELSE (IF IsPrime(k) THEN <<k>> ELSE <<>>) \o PrimesFrom(k + 1, n)

\* C12: iterating sieve_of_eratosthenes(len) yields exactly len booleans and
\* then None, again and again; the k-th yielded value (from 0) is true exactly
\* when k is prime; primes(n) is the increasing sequence of the primes below n.
C12_SieveYieldsPrimality ==
    LET n == Cardinality(DOMAIN sieve)
        r == next([sieve |-> sieve, index |-> sieve_index])
    IN  /\ sieve_last.status # "panic" /\ r.status = "ok"
        /\ Len(sieve_out) = sieve_index /\ sieve_index <= n
        /\ \A k \in 0..(Len(sieve_out) - 1) : sieve_out[k + 1] = IsPrime(k)
        /\ sieve_index < n => r.ret = {IsPrime(sieve_index)}
        /\ sieve_index = n => (r.ret = {} /\ r.it = [sieve |-> sieve, index |-> sieve_index])
        /\ sieve_last.status = "ok" =>
              IF sieve_last.ret = {}
              THEN Len(sieve_out) = n /\ sieve_nones > 0
              ELSE sieve_last.ret = {sieve_out[Len(sieve_out)]} /\ sieve_nones = 0
        /\ primes(n) = PrimesFrom(0, n)

C12_Witness ==
    /\ Cardinality(DOMAIN sieve) = 12
    /\ sieve_nones = 2 /\ sieve_last = [status |-> "ok", ret |-> {}]
    /\ Len(sieve_out) = 12
    /\ sieve_out[12] /\ ~sieve_out[10] /\ sieve_out[3] /\ ~sieve_out[2]
    /\ primes(12) = <<2, 3, 5, 7, 11>>

(***************************************************************************)
(* Properties of binary_search                                             *)
(***************************************************************************)
\* the points strictly between the caller's ok and ng
Between == {x \in Ints : Min(ok0, ng0) < x /\ x < Max(ok0, ng0)}

Holds == {x \in Between : pred(x)}

\* the point of Between nearest to ng0 at which pred holds, or ok0 when there is none
Boundary ==
    IF Holds = {} THEN ok0
    ELSE IF ok0 < ng0 THEN CHOOSE x \in Holds : \A y \in Holds : y <= x
    ELSE CHOOSE x \in Holds : \A y \in Holds : x <= y

\* C13 as stated: with no overflow in ok + ng, binary_search terminates and
\* returns the point strictly between ok and ng nearest to ng at which pred
\* holds, or ok when there is none, and never evaluates pred at ok or ng.
C13_AsStated ==
    /\ [](~bs_sum_ov =>
            /\ bs_evals \subseteq Between
            /\ bs_pc # "loop" => (bs_pc = "done" /\ ok = Boundary))
    /\ <>(bs_pc = "done" \/ bs_sum_ov)

\* C13, amended: the same, when neither ok + ng nor max(ok, ng) - min(ok, ng)
\* overflows the integer type.
C13_SearchFindsBoundary ==
    /\ [](~bs_sum_ov /\ ~bs_diff_ov =>
            /\ bs_evals \subseteq Between
            /\ bs_pc # "loop" => (bs_pc = "done" /\ ok = Boundary))
    /\ <>(bs_pc = "done" \/ bs_sum_ov \/ bs_diff_ov)

C13_Witness ==
    /\ bs_pc = "done" /\ ~bs_sum_ov /\ ~bs_diff_ov
    /\ ok0 > ng0 /\ ng0 < 0
    /\ Cardinality(bs_evals) >= 3
    /\ ok # ok0 /\ ok = Boundary /\ ok - 1 \in Between

====
